---- MODULE Spec2Model ----
(***************************************************************************)
(* Media Analysis Bot (src/app.py): a Streamlit script that takes an       *)
(* uploaded image or video and a question, turns the image (or the middle  *)
(* frame of the video) into a base64 payload and sends it with the         *)
(* question to a Groq vision model.                                        *)
(*                                                                         *)
(* Python values are represented as follows.  A str is a sequence of text  *)
(* fragments (a base64 string is a sequence of one-character strings), a   *)
(* bytes object is a sequence of numbers in 0..255, and None is the        *)
(* sentinel below, which is neither.                                       *)
(***************************************************************************)
EXTENDS Integers, Sequences, FiniteSets, TLC

\* ------------------------------------------------------------------ bounds
MaxLen == 3        \* longest image byte buffer
MaxFrames == 4     \* most frames in a video
MaxTmpFiles == 2   \* temporary files on disk after which no further call is explored

\* ------------------------------------------------------- program constants
LimitMB == 10      \* app.py:143  file_size > 10
MaxTokens == 1000  \* app.py:105  max_tokens=1000

MB == 1024 * 1024

None == <<"#None">>

\* Python truthiness of a str-or-None (and of a PIL image or None).
Truthy(v) == v # None /\ v # <<>>

\* str(x) inside an f-string: None is rendered as the text "None".
Str(v) == IF v = None THEN <<"N", "o", "n", "e">> ELSE v

\* ---------------------------------------------------------------- base64
Alphabet ==
  << "A","B","C","D","E","F","G","H","I","J","K","L","M","N","O","P",
     "Q","R","S","T","U","V","W","X","Y","Z","a","b","c","d","e","f",
     "g","h","i","j","k","l","m","n","o","p","q","r","s","t","u","v",
     "w","x","y","z","0","1","2","3","4","5","6","7","8","9","+","/" >>

Sextet(n) == Alphabet[n + 1]

\* base64.b64encode(content).decode('utf-8'): three bytes give four
\* characters; a last group of one or two bytes is padded with "=".
RECURSIVE b64encode(_)
b64encode(bytes) ==
  IF Len(bytes) = 0 THEN <<>>
  ELSE IF Len(bytes) = 1 THEN
    << Sextet(bytes[1] \div 4), Sextet((bytes[1] % 4) * 16), "=", "=" >>
  ELSE IF Len(bytes) = 2 THEN
    << Sextet(bytes[1] \div 4),
       Sextet((bytes[1] % 4) * 16 + bytes[2] \div 16),
       Sextet((bytes[2] % 16) * 4), "=" >>
  ELSE
    << Sextet(bytes[1] \div 4),
       Sextet((bytes[1] % 4) * 16 + bytes[2] \div 16),
       Sextet((bytes[2] % 16) * 4 + bytes[3] \div 64),
       Sextet(bytes[3] % 64) >> \o b64encode(SubSeq(bytes, 4, Len(bytes)))

\* base64.b64decode, the inverse the round trip is stated against.
SextetValue(c) == (CHOOSE i \in 1..64 : Alphabet[i] = c) - 1

RECURSIVE b64decode(_)
b64decode(chars) ==
  IF Len(chars) < 4 THEN <<>>
  ELSE
    LET a == SextetValue(chars[1])
        b == SextetValue(chars[2])
        rest == b64decode(SubSeq(chars, 5, Len(chars)))
    IN  IF chars[3] = "=" THEN << a * 4 + b \div 16 >>
        ELSE LET c == SextetValue(chars[3]) IN
          IF chars[4] = "=" THEN << a * 4 + b \div 16, (b % 16) * 16 + c \div 4 >>
          ELSE << a * 4 + b \div 16, (b % 16) * 16 + c \div 4,
                  (c % 4) * 64 + SextetValue(chars[4]) >> \o rest

\* ------------------------------------------------------------ UI messages
\* What st.error / st.warning / st.success / st.write / st.image put on the
\* page: <<kind, text>>.  The str(e) tail of an f-string message is left out.
WarnNoKey == <<"warning", <<"Please enter your Groq API key to continue.">>>>
ErrEncoding == <<"error", <<"Error encoding file: ">>>>
ErrVideo == <<"error", <<"Error processing video: ">>>>
ErrAnalysis == <<"error", <<"Analysis error: ">>>>
ErrTooLarge ==
  <<"error", <<"File is too large! Please upload a file smaller than 10MB.">>>>
ErrFailedMedia == <<"error", <<"Failed to process media file.">>>>
ErrOccurred == <<"error", <<"An error occurred: ">>>>
MsgProcessing == <<"write", <<"Processing video frame...">>>>
MsgSuccess == <<"success", <<"Analysis Complete!">>>>
MsgResults == <<"write", <<"### Analysis Results">>>>
MsgImage == <<"image", <<"Uploaded Image">>>>
MsgFrame == <<"image", <<"Analyzed Video Frame (Middle Frame)">>>>
MsgFooter == <<"write", <<"Thank you for using the Media Analysis Bot!">>>>

Range(s) == {s[i] : i \in DOMAIN s}
Errors(s) == {m \in Range(s) : m[1] = "error"}

\* ----------------------------------------------------------- load_api_key
\* st.secrets is a mapping; subscripting it with a key it does not hold
\* raises KeyError, which load_api_key does not catch.
load_api_key(secret_store, typed) ==
  IF "GROQ_API_KEY" \notin DOMAIN secret_store
    THEN [status |-> "KeyError", api_key |-> "", shown |-> <<>>]
  ELSE IF secret_store.GROQ_API_KEY # ""
    THEN [status |-> "ok", api_key |-> secret_store.GROQ_API_KEY, shown |-> <<>>]
  ELSE IF typed # ""
    THEN [status |-> "ok", api_key |-> typed, shown |-> <<>>]
  ELSE [status |-> "stop", api_key |-> "", shown |-> <<WarnNoKey>>]

\* ----------------------------------------------------------- encode_image
\* The upload is a byte stream with a read pointer; seek and read raise on a
\* closed stream.
seek(file, offset) == [file EXCEPT !.pos = offset]
read(file) == SubSeq(file.data, file.pos + 1, Len(file.data))

\* encode_image without file.seek(0): it reads from wherever the pointer is.
encode_image_noseek(file) ==
  IF file.closed
    THEN [result |-> None, shown |-> <<ErrEncoding>>, pos |-> file.pos]
    ELSE [result |-> b64encode(read(file)), shown |-> <<>>,
          pos |-> Len(file.data)]

encode_image(file) ==
  IF file.closed
    THEN [result |-> None, shown |-> <<ErrEncoding>>, pos |-> file.pos]
    ELSE [result |-> b64encode(read(seek(file, 0))), shown |-> <<>>,
          pos |-> Len(file.data)]

\* ---------------------------------------------------- process_video_frame
\* What the decoder sees in the uploaded bytes: whether it can open them,
\* how many frames the container holds, and the index at which a truncated
\* file stops decoding (frames at or past truncated_at cannot be read).
\* A frame is one BGR pixel, different for every index.
Frame(index) == << index, 100 + index, 200 + index >>
imencode(frame) == <<255, 216>> \o frame \o <<255, 217>>
cvtColor(frame) == << frame[3], frame[2], frame[1] >>
fromarray(pixels) == <<"PIL.Image">> \o pixels

\* cap.get(cv2.CAP_PROP_FRAME_COUNT) is 0 for a capture that did not open.
FrameCount(video) == IF video.opened THEN video.frames ELSE 0

\* The midpoint rounded up instead of down.
MiddleFrameOff(total_frames) == (total_frames + 1) \div 2

MiddleFrame(total_frames) == total_frames \div 2

\* cap.set(POS_FRAMES, index); cap.read()
CapRead(video, index) ==
  video.opened /\ index >= 0 /\ index < video.frames
               /\ index < video.truncated_at

\* The calls of process_video_frame that can raise.  "none": nothing raises.
Faults ==
  {"none", "NamedTemporaryFile", "write", "VideoCapture", "imencode",
   "cvtColor", "fromarray"}

\* tmp_files: the temporary files of this call still on disk at return.
\* frames_read: the indices of the frames cap.read() delivered.
VideoRaised(tmp, frames) ==
  [base64_image |-> None, display_image |-> None, tmp_files |-> tmp,
   frames_read |-> frames, shown |-> <<ErrVideo>>]

\* process_video_frame keeping the payload when the display conversion raises.
process_video_frame_half(video, fault) ==
  IF fault = "NamedTemporaryFile" THEN VideoRaised(0, <<>>)
  ELSE IF fault \in {"write", "VideoCapture"} THEN VideoRaised(1, <<>>)
  ELSE
    LET total_frames == FrameCount(video)
        middle_frame == MiddleFrame(total_frames)
        ret == CapRead(video, middle_frame)
        frame == Frame(middle_frame)
    IN  IF ret THEN
          IF fault = "imencode" THEN VideoRaised(1, <<middle_frame>>)
          ELSE IF fault \in {"cvtColor", "fromarray"} THEN
            [base64_image |-> b64encode(imencode(frame)),
             display_image |-> None, tmp_files |-> 1,
             frames_read |-> <<middle_frame>>, shown |-> <<ErrVideo>>]
          ELSE
            [base64_image |-> b64encode(imencode(frame)),
             display_image |-> fromarray(cvtColor(frame)),
             tmp_files |-> 0, frames_read |-> <<middle_frame>>,
             shown |-> <<>>]
        ELSE
          [base64_image |-> None, display_image |-> None, tmp_files |-> 0,
           frames_read |-> <<>>, shown |-> <<>>]

process_video_frame(video, fault) ==
  IF fault = "NamedTemporaryFile" THEN VideoRaised(0, <<>>)
  ELSE IF fault \in {"write", "VideoCapture"} THEN VideoRaised(1, <<>>)
  ELSE
    LET total_frames == FrameCount(video)
        middle_frame == MiddleFrame(total_frames)
        ret == CapRead(video, middle_frame)
        frame == Frame(middle_frame)
    IN  IF ret THEN
          IF fault \in {"imencode", "cvtColor", "fromarray"}
            THEN VideoRaised(1, <<middle_frame>>)
            ELSE
              [base64_image |-> b64encode(imencode(frame)),
               display_image |-> fromarray(cvtColor(frame)),
               tmp_files |-> 0, frames_read |-> <<middle_frame>>,
               shown |-> <<>>]
        ELSE
          [base64_image |-> None, display_image |-> None, tmp_files |-> 0,
           frames_read |-> <<>>, shown |-> <<>>]

\* ------------------------------------------------------ analyze_with_groq
\* The one message of the request: a text part, then an image part.
Messages(base64_image, query) ==
  << [role |-> "user",
      content |->
        << [type |-> "text",
            text |-> <<"Please analyze this image and answer: ">> \o Str(query)],
           [type |-> "image_url",
            image_url |->
              [url |-> <<"data:image/jpeg;base64,">> \o Str(base64_image)]] >>] >>

\* client.chat.completions.create(...)
Request(client, base64_image, query) ==
  [api_key |-> client.api_key,
   messages |-> Messages(base64_image, query),
   model |-> "llama-3.2-11b-vision-preview",
   temperature |-> "0.7",
   max_tokens |-> MaxTokens]

\* What the endpoint does with a request: the call raises (network, auth,
\* rate limit), the response holds no choice (the subscript raises), or the
\* first choice's message content is a text, an empty text or None.
Answer == <<"The car is red.">>
Replies ==
  {[kind |-> "raise", content |-> None],
   [kind |-> "no_choices", content |-> None],
   [kind |-> "ok", content |-> None],
   [kind |-> "ok", content |-> <<>>],
   [kind |-> "ok", content |-> Answer]}

\* analyze_with_groq sending the request a second time after a failure.
analyze_with_groq_retry(client, base64_image, query, reply) ==
  LET req == Request(client, base64_image, query)
  IN  IF reply.kind = "ok"
        THEN [result |-> reply.content, shown |-> <<>>, requests |-> <<req>>]
        ELSE [result |-> None, shown |-> <<ErrAnalysis>>,
              requests |-> <<req, req>>]

analyze_with_groq(client, base64_image, query, reply) ==
  LET req == Request(client, base64_image, query)
  IN  IF reply.kind = "ok"
        THEN [result |-> reply.content, shown |-> <<>>, requests |-> <<req>>]
        ELSE [result |-> None, shown |-> <<ErrAnalysis>>, requests |-> <<req>>]

\* ------------------------------------------------------------------- main
\* file_size = uploaded_file.size / (1024 * 1024); file_size > 10.  The
\* division by a power of two is exact, so the test is size > 10 * 2^20.
\* The size test with >= in place of >.
TooLargeInclusive(size) == size >= LimitMB * MB

TooLarge(size) == size > LimitMB * MB

\* if uploaded_file and query
\* The condition with or in place of and.
HasInputsEither(file, q) == file.kind # "none" \/ q # <<>>

HasInputs(file, q) == file.kind # "none" /\ q # <<>>

\* ------------------------------------------------------------------ state
VARIABLES
  pc,             \* where the script run of main stands
  secrets,        \* st.secrets
  typed_key,      \* the text typed into the masked API key prompt
  media_type,     \* the radio selection
  uploaded_file,  \* the file uploader's value
  query,          \* the question text
  api_key, client,
  base64_image, display_frame, analysis,
  shown,          \* the messages of this run, in order
  calls,          \* encode_image / process_video_frame / analyze_with_groq
                  \* invocations of this run, in order
  requests,       \* the requests this run (or the last direct call) sent
  disk,           \* temporary .mp4 files on disk
  call            \* the last direct call of a component, with its outcome

vars ==
  << pc, secrets, typed_key, media_type, uploaded_file, query, api_key,
     client, base64_image, display_frame, analysis, shown, calls, requests,
     disk, call >>

widgets == << secrets, typed_key, media_type, uploaded_file, query >>
run == << api_key, client, base64_image, display_frame, analysis, shown,
          calls, requests >>

\* ----------------------------------------------------------------- inputs
SecretStores ==
  {[OTHER_SETTING |-> "x"],
   [OTHER_SETTING |-> "x", GROQ_API_KEY |-> ""],
   [OTHER_SETTING |-> "x", GROQ_API_KEY |-> "gsk_secret"]}
TypedKeys == {"", "gsk_typed"}
Queries == {<<>>, <<"What color is the car?">>}

\* Reported sizes in bytes: 500 KB, 9.9 MB, exactly 10 MB, one byte more,
\* 10.1 MB.
Sizes == {500 * 1024, 10380902, LimitMB * MB, LimitMB * MB + 1, 10590618}

Bytes == {0, 77, 255}
Buffers == UNION {[1..n -> Bytes] : n \in 0..MaxLen}

\* The content of a file stands for the whole upload; its reported size is
\* carried beside it.
File(kind, size, data, pos, closed, opened, frames, truncated_at) ==
  [kind |-> kind, size |-> size, data |-> data, pos |-> pos,
   closed |-> closed, opened |-> opened, frames |-> frames,
   truncated_at |-> truncated_at]
NoFile == File("none", 0, <<>>, 0, FALSE, FALSE, 0, 0)
ImageFile(size, data, pos, closed) ==
  File("image", size, data, pos, closed, FALSE, 0, 0)
VideoFile(size, opened, frames, truncated_at) ==
  File("video", size, <<>>, 0, FALSE, opened, frames, truncated_at)

\* Frame counts: every small one, and the 101 frames of a longer clip.
FrameCounts == 0..MaxFrames \cup {101}
Videos ==
  {VideoFile(0, FALSE, 0, 0)} \cup
  {VideoFile(0, TRUE, n, t) : n \in FrameCounts, t \in FrameCounts}

\* What the file uploader can hold for a media type.
Uploads(kind) ==
  IF kind = "Image"
    THEN {ImageFile(0, <<>>, 0, FALSE)} \cup
         {ImageFile(s, d, 0, FALSE) : s \in Sizes, d \in Buffers \ {<<>>}}
    ELSE {[v EXCEPT !.size = s] : v \in Videos, s \in Sizes}

NoClient == [api_key |-> ""]
NoCall == [fn |-> "none"]

Init ==
  /\ pc = "load_api_key"
  /\ secrets \in SecretStores
  /\ typed_key = ""
  /\ media_type = "Image"
  /\ uploaded_file = NoFile
  /\ query = <<>>
  /\ api_key = ""
  /\ client = NoClient
  /\ base64_image = None
  /\ display_frame = None
  /\ analysis = None
  /\ shown = <<>>
  /\ calls = <<>>
  /\ requests = <<>>
  /\ disk = 0
  /\ call = NoCall

\* ------------------------------------------------------- one run of main
\* api_key = load_api_key(); client = Groq(api_key=api_key).  st.stop ends
\* the run; the KeyError leaves main uncaught.
LoadApiKey ==
  /\ pc = "load_api_key"
  /\ LET r == load_api_key(secrets, typed_key)
     IN  /\ pc' = CASE r.status = "ok" -> "inputs"
                    [] r.status = "stop" -> "stopped"
                    [] OTHER -> "crashed"
         /\ api_key' = r.api_key
         /\ client' = IF r.status = "ok" THEN [api_key |-> r.api_key]
                                         ELSE NoClient
         /\ shown' = shown \o r.shown
  /\ UNCHANGED << widgets, base64_image, display_frame, analysis, calls,
                  requests, disk, call >>

CheckInputs ==
  /\ pc = "inputs"
  /\ pc' = IF HasInputs(uploaded_file, query) THEN "size_check" ELSE "footer"
  /\ UNCHANGED << widgets, run, disk, call >>

\* The return after the size error skips the tips and the footer.
SizeCheck ==
  /\ pc = "size_check"
  /\ IF TooLarge(uploaded_file.size)
       THEN pc' = "done" /\ shown' = Append(shown, ErrTooLarge)
       ELSE pc' = "process" /\ shown' = shown
  /\ UNCHANGED << widgets, api_key, client, base64_image, display_frame,
                  analysis, calls, requests, disk, call >>

\* st.image(uploaded_file); base64_image = encode_image(uploaded_file).
\* Displaying reads the stream and leaves its pointer anywhere, or raises on
\* data that is no image; main's except reports that.
ProcessImage ==
  /\ pc = "process" /\ media_type = "Image"
  /\ \E displayed \in BOOLEAN, p \in 0..Len(uploaded_file.data) :
       IF displayed
         THEN LET r == encode_image(seek(uploaded_file, p))
              IN  /\ uploaded_file' = seek(uploaded_file, r.pos)
                  /\ base64_image' = r.result
                  /\ shown' = shown \o <<MsgImage>> \o r.shown
                  /\ calls' = Append(calls, "encode_image")
                  /\ pc' = "analyze"
         ELSE /\ uploaded_file' = seek(uploaded_file, p)
              /\ shown' = Append(shown, ErrOccurred)
              /\ pc' = "footer"
              /\ UNCHANGED << base64_image, calls >>
  /\ UNCHANGED << secrets, typed_key, media_type, query, api_key, client,
                  display_frame, analysis, requests, disk, call >>

\* base64_image, display_frame = process_video_frame(uploaded_file);
\* if display_frame: st.image(display_frame)
ProcessVideo ==
  /\ pc = "process" /\ media_type = "Video"
  /\ \E fault \in Faults, displayed \in BOOLEAN :
       LET r == process_video_frame(uploaded_file, fault)
           raised == Truthy(r.display_image) /\ ~displayed
       IN  /\ base64_image' = r.base64_image
           /\ display_frame' = r.display_image
           /\ disk' = disk + r.tmp_files
           /\ calls' = Append(calls, "process_video_frame")
           /\ shown' = shown \o <<MsgProcessing>> \o r.shown \o
                (IF ~Truthy(r.display_image) THEN <<>>
                 ELSE IF raised THEN <<ErrOccurred>> ELSE <<MsgFrame>>)
           /\ pc' = IF raised THEN "footer" ELSE "analyze"
  /\ UNCHANGED << widgets, api_key, client, analysis, requests, call >>

\* if base64_image: analyze, and show the analysis if there is one;
\* else: st.error("Failed to process media file.")
Analyze ==
  /\ pc = "analyze"
  /\ IF Truthy(base64_image)
       THEN \E reply \in Replies :
              LET r == analyze_with_groq(client, base64_image, query, reply)
              IN  /\ analysis' = r.result
                  /\ requests' = requests \o r.requests
                  /\ calls' = Append(calls, "analyze_with_groq")
                  /\ shown' = shown \o r.shown \o
                       (IF Truthy(r.result)
                          THEN <<MsgSuccess, MsgResults, <<"write", r.result>>>>
                          ELSE <<>>)
       ELSE /\ shown' = Append(shown, ErrFailedMedia)
            /\ UNCHANGED << analysis, requests, calls >>
  /\ pc' = "footer"
  /\ UNCHANGED << widgets, api_key, client, base64_image, display_frame,
                  disk, call >>

Footer ==
  /\ pc = "footer"
  /\ pc' = "done"
  /\ shown' = Append(shown, MsgFooter)
  /\ UNCHANGED << widgets, api_key, client, base64_image, display_frame,
                  analysis, calls, requests, disk, call >>

\* ------------------------------------------------------ widget changes
\* Every change of a widget runs the script again from the top.  A widget
\* can be changed only if the last run got as far as drawing it.
StartRun ==
  /\ pc' = "load_api_key"
  /\ api_key' = ""
  /\ client' = NoClient
  /\ base64_image' = None
  /\ display_frame' = None
  /\ analysis' = None
  /\ shown' = <<>>
  /\ calls' = <<>>
  /\ requests' = <<>>
  /\ UNCHANGED << secrets, disk, call >>

TypeKey ==
  /\ pc \in {"stopped", "done"}
  /\ disk < MaxTmpFiles
  /\ "GROQ_API_KEY" \in DOMAIN secrets /\ secrets.GROQ_API_KEY = ""
  /\ \E k \in TypedKeys \ {typed_key} : typed_key' = k
  /\ StartRun
  /\ UNCHANGED << media_type, uploaded_file, query >>

SelectMediaType ==
  /\ pc = "done"
  /\ disk < MaxTmpFiles
  /\ \E m \in {"Image", "Video"} \ {media_type} : media_type' = m
  /\ uploaded_file' = NoFile
  /\ StartRun
  /\ UNCHANGED << typed_key, query >>

Upload ==
  /\ pc = "done"
  /\ disk < MaxTmpFiles
  /\ \E f \in (Uploads(media_type) \cup {NoFile}) \ {uploaded_file} :
       uploaded_file' = f
  /\ StartRun
  /\ UNCHANGED << typed_key, media_type, query >>

AskQuery ==
  /\ pc = "done"
  /\ disk < MaxTmpFiles
  /\ \E q \in Queries \ {query} : query' = q
  /\ StartRun
  /\ UNCHANGED << typed_key, media_type, uploaded_file >>

Next ==
  \/ LoadApiKey
  \/ CheckInputs
  \/ SizeCheck
  \/ ProcessImage
  \/ ProcessVideo
  \/ Analyze
  \/ Footer
  \/ TypeKey
  \/ SelectMediaType
  \/ Upload
  \/ AskQuery

Spec == Init /\ [][Next]_vars

\* --------------------------------------------- the components on their own
\* Each component called directly, any number of times, one call after the
\* other, with every argument of the bounded sets, which include the ones
\* main never passes.  call holds the call and its outcome until the caller
\* drops them; the disk is what the calls so far have left on it.
Payloads ==
  {None, <<>>, b64encode(<<255, 216, 255>>), b64encode(imencode(Frame(0)))}
Clients == {[api_key |-> "gsk_secret"]}

InitCalls ==
  /\ pc = "direct"
  /\ secrets \in SecretStores
  /\ typed_key = ""
  /\ media_type = "Image"
  /\ uploaded_file = NoFile
  /\ query = <<>>
  /\ api_key = ""
  /\ client = NoClient
  /\ base64_image = None
  /\ display_frame = None
  /\ analysis = None
  /\ shown = <<>>
  /\ calls = <<>>
  /\ requests = <<>>
  /\ disk = 0
  /\ call = NoCall

CallLoadApiKey ==
  /\ call = NoCall
  /\ \E typed \in TypedKeys :
       call' = [fn |-> "load_api_key", typed |-> typed,
                out |-> load_api_key(secrets, typed)]
  /\ UNCHANGED << pc, widgets, run, disk >>

CallEncodeImage ==
  /\ call = NoCall
  /\ \E data \in Buffers, closed \in BOOLEAN :
       \E pos \in 0..Len(data) :
         LET file == ImageFile(Len(data), data, pos, closed)
         IN  call' = [fn |-> "encode_image", file |-> file,
                      out |-> encode_image(file)]
  /\ requests' = <<>>
  /\ UNCHANGED << pc, widgets, api_key, client, base64_image, display_frame,
                  analysis, shown, calls, disk >>

CallProcessVideoFrame ==
  /\ call = NoCall
  /\ disk < MaxTmpFiles
  /\ \E video \in Videos, fault \in Faults :
       LET out == process_video_frame(video, fault)
       IN  /\ call' = [fn |-> "process_video_frame", video |-> video,
                       fault |-> fault, out |-> out]
           /\ disk' = disk + out.tmp_files
  /\ requests' = <<>>
  /\ UNCHANGED << pc, widgets, api_key, client, base64_image, display_frame,
                  analysis, shown, calls >>

CallAnalyzeWithGroq ==
  /\ call = NoCall
  /\ \E c \in Clients, payload \in Payloads, q \in Queries, reply \in Replies :
       LET out == analyze_with_groq(c, payload, q, reply)
       IN  /\ call' = [fn |-> "analyze_with_groq", base64_image |-> payload,
                       query |-> q, reply |-> reply, out |-> out]
           /\ requests' = out.requests
  /\ UNCHANGED << pc, widgets, api_key, client, base64_image, display_frame,
                  analysis, shown, calls, disk >>

Return ==
  /\ call # NoCall
  /\ call' = NoCall
  /\ requests' = <<>>
  /\ UNCHANGED << pc, widgets, api_key, client, base64_image, display_frame,
                  analysis, shown, calls, disk >>

NextCalls ==
  \/ Return
  \/ CallLoadApiKey
  \/ CallEncodeImage
  \/ CallProcessVideoFrame
  \/ CallAnalyzeWithGroq

SpecCalls == InitCalls /\ [][NextCalls]_vars

\* ================================================================ claims
TenMB == LimitMB * MB
Prepare == IF media_type = "Image" THEN "encode_image"
                                   ELSE "process_video_frame"
Begun == pc \notin {"load_api_key", "inputs", "size_check", "stopped", "crashed"}

\* C1: after every call of process_video_frame, whatever its outcome, the
\* temporary file the call created is gone, so that no temporary file is
\* ever left on disk after any number of calls.
C1_TempFileAlwaysDeleted ==
  /\ call.fn = "process_video_frame" => call.out.tmp_files = 0
  /\ disk = 0

\* C2: analyze_with_groq called with an empty or None payload returns None
\* and sends no request to the endpoint.
C2_NoRequestForEmptyPayload ==
  call.fn = "analyze_with_groq" /\ ~Truthy(call.base64_image)
    => call.out.result = None /\ call.out.requests = <<>> /\ requests = <<>>

\* C3: a run of main with a file and a query ends showing either the success
\* message with the analysis text or at least one error message, and no
\* failure leaves main uncaught.
SuccessShown ==
  /\ Truthy(analysis)
  /\ MsgSuccess \in Range(shown)
  /\ <<"write", analysis>> \in Range(shown)

C3_SuccessOrErrorShown ==
  uploaded_file.kind # "none" /\ query # <<>>
    => /\ pc # "crashed"
       /\ pc = "done" => SuccessShown \/ Errors(shown) # {}

\* C4: when the secret store holds no key (entry missing or empty) the key
\* typed into the prompt is used, and when that is empty too the run halts
\* with the warning, before the client is created and before any request;
\* a missing key never leaves main as an uncaught error.
NoSecretKey ==
  "GROQ_API_KEY" \notin DOMAIN secrets \/ secrets.GROQ_API_KEY = ""

C4_MissingKeyPromptsOrHalts ==
  /\ pc # "crashed"
  /\ NoSecretKey /\ pc # "load_api_key"
       => IF typed_key = ""
            THEN /\ pc = "stopped"
                 /\ WarnNoKey \in Range(shown)
                 /\ client = NoClient
                 /\ requests = <<>>
            ELSE api_key = typed_key /\ client = [api_key |-> typed_key]

C7_MiddleFrameOnly ==
  call.fn = "process_video_frame"
    => LET v == call.video
           o == call.out
           mid == v.frames \div 2
       IN  /\ Len(o.frames_read) <= 1
           /\ \A i \in DOMAIN o.frames_read :
                o.frames_read[i] = mid /\ mid \in 0..(v.frames - 1)
           /\ Truthy(o.base64_image)
                => /\ o.frames_read = <<mid>>
                   /\ o.base64_image = b64encode(imencode(Frame(mid)))
           /\ v.opened /\ v.frames >= 1 /\ v.truncated_at > mid
                /\ call.fault \notin {"NamedTemporaryFile", "write", "VideoCapture"}
                => o.frames_read = <<mid>>

C7_Witness ==
  /\ call.fn = "process_video_frame"
  /\ call.video.frames = 101
  /\ call.out.frames_read = <<50>>
  /\ Truthy(call.out.base64_image)

\* C8: for every byte buffer and every position of the stream's read
\* pointer, encode_image returns a base64 string that decodes to the whole
\* buffer.
C8_Base64RoundTrip ==
  call.fn = "encode_image" /\ ~call.file.closed
    => /\ call.out.result # None
       /\ b64decode(call.out.result) = call.file.data

C8_Witness ==
  /\ call.fn = "encode_image" /\ ~call.file.closed
  /\ Len(call.file.data) = 2 /\ call.file.pos = 2
  /\ Len(call.out.result) = 4

\* C9: analyze_with_groq with a non-empty payload and a non-empty query
\* sends exactly one request, holding one user message whose two parts are
\* the text (the instruction phrase, then the query) and then the image (the
\* data URI of the payload); when the request fails or the response has no
\* choice it returns None and sends nothing more.
C9_OneRequestTextThenImage ==
  call.fn = "analyze_with_groq" /\ Truthy(call.base64_image) /\ Truthy(call.query)
    => /\ Len(requests) = 1
       /\ LET m == requests[1].messages
          IN  /\ Len(m) = 1
              /\ m[1].role = "user"
              /\ Len(m[1].content) = 2
              /\ m[1].content[1].type = "text"
              /\ m[1].content[1].text =
                   <<"Please analyze this image and answer: ">> \o call.query
              /\ m[1].content[2].type = "image_url"
              /\ m[1].content[2].image_url.url =
                   <<"data:image/jpeg;base64,">> \o call.base64_image
       /\ call.reply.kind # "ok" => call.out.result = None

C9_Witness ==
  /\ call.fn = "analyze_with_groq" /\ Truthy(call.base64_image)
  /\ Truthy(call.query) /\ call.reply.kind = "raise"
  /\ Len(requests) = 1 /\ call.out.result = None

\* C10: in a run of main at most one request is sent, and only after a file
\* was uploaded, the query is non-empty, the size check passed and the one
\* preparation step of the media type returned a non-empty payload, in that
\* order; without a file or without a query nothing is encoded, decoded or
\* sent.
C10_RequestOnlyAfterPreparation ==
  /\ Len(requests) <= 1
  /\ calls \in {<<>>, <<Prepare>>, <<Prepare, "analyze_with_groq">>}
  /\ Len(requests) = Len(SelectSeq(calls, LAMBDA c : c = "analyze_with_groq"))
  /\ requests # <<>>
       => /\ uploaded_file.kind # "none" /\ query # <<>>
          /\ uploaded_file.size <= TenMB /\ ErrTooLarge \notin Range(shown)
          /\ Truthy(base64_image)
          /\ requests[1].messages = Messages(base64_image, query)
  /\ uploaded_file.kind = "none" \/ query = <<>>
       => calls = <<>> /\ requests = <<>> /\ base64_image = None

C10_Witness ==
  /\ media_type = "Video" /\ Len(requests) = 1
  /\ calls = <<"process_video_frame", "analyze_with_groq">>

====
